---- MODULE Spec2Model ----
(***************************************************************************)
(* Sliding-window listwise reranking with the Fusion-in-Decoder rerankers  *)
(* of rankify/models/rank_fid.py: RankFiDDistill (strategy "distill",      *)
(* the model emits a ranked-index text) and RankFiDScore (strategy         *)
(* "score", the model emits per-passage cross-attention scores).           *)
(*                                                                         *)
(* rerank_batch, create_prompt, run_llm, run_llm_batched and               *)
(* _run_llm_by_length_unified are translated from rank_fid.py.  The base   *)
(* class ListwiseRankLLM (sliding_windows, sliding_windows_batched,        *)
(* permutation_pipeline, receive_permutation) is not part of the sources;  *)
(* the Windowing Engine and the Ranking Parser/Merger are modelled from    *)
(* sections 4.1, 4.4, 4.5 and 8 of the specification.                      *)
(*                                                                         *)
(* Positions are 0-based as in the code: position g of a candidate list    *)
(* is element g + 1 of the TLA+ sequence.  A window (start, end) is the    *)
(* half-open range start .. end - 1.                                       *)
(***************************************************************************)
EXTENDS Integers, Sequences, FiniteSets, TLC

VARIABLES
    strategy,           \* "distill" (RankFiDDistill) or "score" (RankFiDScore)
    batched,            \* self._batched
    llm,                \* the family of outputs the neural model may produce
    requests,           \* argument: one candidate-id sequence per Request
    rank_start,         \* argument
    rank_end,           \* argument
    shuffle_candidates, \* argument
    kwargs,             \* keyword arguments: key |-> <<>> (absent) or <<value>>
    pc,                 \* "idle", "loop", "window", "invoked", "done", "raised"
    error,              \* the exception that left rerank_batch, or "none"
    window_size,        \* local of rerank_batch
    step,               \* local of rerank_batch
    batch_size,         \* local of rerank_batch
    i,                  \* loop index of rerank_batch (0-based)
    results,            \* the Results collected so far (candidate sequences)
    lo,                 \* first Request (1-based) of the group being reranked
    work,               \* the Results under construction, one per group member
    window,             \* <<start, end>> of the next window, <<>> when none is left
    visited,            \* the windows merged so far for the current group
    prompts,            \* the prompts of the current invocation, one per member
    scores,             \* strategy "score": the scores of the current invocation
    response,           \* the ranked-index texts the invocation returned
    n_passages,         \* the model's passage count (reset_n_passages)
    nInvocations,       \* number of model invocations started
    nMerges,            \* number of window merges done
    pre,                \* work as it was before the last merge
    lastPrompts,        \* the prompts of the last merged window
    lastResponse,       \* the texts of the last merged window
    ptext,              \* parser check: the output text
    plen,               \* parser check: the window length
    pout,               \* parser check: the parsed order
    pdone,              \* parser check: whether the text has been parsed
    sw_rank_start,      \* rank_start as passed to sliding_windows
    sw_rank_end,        \* rank_end as passed to sliding_windows
    output_token_estimate,  \* self._output_token_estimate, <<>> for None
    op,                 \* the utility method called last, "none" before any
    arg,                \* its argument
    ret,                \* what it returned or raised
    nCalls,             \* number of utility calls made
    nEncodes,           \* number of calls of self._tokenizer.encode made
    estimateBefore,     \* self._output_token_estimate before the last call
    encodesBefore       \* nEncodes before the last call

vars == <<strategy, batched, llm, requests, rank_start, rank_end,
          shuffle_candidates, kwargs, pc, error, window_size, step, batch_size,
          i, results, lo, work, window, visited, prompts, scores, response,
          n_passages, nInvocations, nMerges, pre, lastPrompts, lastResponse,
          ptext, plen, pout, pdone, sw_rank_start, sw_rank_end,
          output_token_estimate, op, arg, ret, nCalls, nEncodes,
          estimateBefore, encodesBefore>>

callVars == <<strategy, batched, llm, requests, rank_start, rank_end,
              shuffle_candidates, kwargs>>

parseVars == <<ptext, plen, pout, pdone>>

utilVars == <<output_token_estimate, op, arg, ret, nCalls, nEncodes,
              estimateBefore, encodesBefore>>

(***************************************************************************)
(* Bounds of the model.                                                    *)
(***************************************************************************)
MaxN == 3
MaxReq == 2
MaxTextLen == 2
MaxScore == 1
MaxWinN == 6
MaxParseLen == 3
MaxCalls == 3       \* utility calls in a row
MaxStrLen == 1      \* words of a string handed to get_num_tokens
MaxUnits == 2       \* text units of a list handed to get_num_tokens
MaxOutLen == 2      \* tokens of a generated sequence

(***************************************************************************)
(* Program constants.                                                      *)
(***************************************************************************)
DefaultWindowSize == 20
DefaultStepSize == 10
DefaultTopKRetrieve == 100
DefaultBatchSize == 1

(***************************************************************************)
(* Helpers.                                                                *)
(***************************************************************************)
Min(a, b) == IF a <= b THEN a ELSE b

Max(a, b) == IF a >= b THEN a ELSE b

Range(s) == {s[k] : k \in 1..Len(s)}

Injective(s) == \A a, b \in 1..Len(s) : s[a] = s[b] => a = b

\* The orderings of 1..n.
Orderings(n) == {f \in [1..n -> 1..n] : Injective(f)}

\* s is a rearrangement of t: same length and same multiset of elements.
IsPermutationOf(s, t) ==
    /\ Len(s) = Len(t)
    /\ \A x \in Range(s) \cup Range(t) :
          Cardinality({k \in 1..Len(s) : s[k] = x})
              = Cardinality({k \in 1..Len(t) : t[k] = x})

\* The stable id of candidate k (1-based) of Request r.
CandId(r, k) == r * 100 + k

Candidates(r, n) == [k \in 1..n |-> CandId(r, k)]

\* dict.get(key, default)
KwGet(kw, key, default) == IF kw[key] = <<>> THEN default ELSE kw[key][1]

(***************************************************************************)
(* Texts.  A ranked-index text such as "[3] > [1] > [2]" is the sequence   *)
(* of its items: a natural k stands for the bracketed integer "[k]", Junk  *)
(* for any fragment that is not a bracketed integer.  The separators       *)
(* " > " are implicit.                                                     *)
(***************************************************************************)
Junk == 0 - 1

Identity(L) == [k \in 1..L |-> k]

Reverse(L) == [k \in 1..L |-> L + 1 - k]

RotateLeft(L) == [k \in 1..L |-> IF k = L THEN 1 ELSE k + 1]

\* A malformed answer: out of range above and below, a repeat, and a gap.
Malformed(L) == <<L + 1, 2, 2, 0, Junk, 1>>

\* The texts the neural model may decode to for a window of L passages.
\*   "any":    every text of at most MaxTextLen bracketed integers in 0..L+1
\*   "shapes": a handful of well-formed and malformed answers
\*   "echo":   the identity ranking only
ModelTexts(family, L) ==
    CASE family = "any" ->
            UNION {[1..n -> 0..(L + 1)] : n \in 0..MaxTextLen}
      [] family = "shapes" ->
            {Identity(L), Reverse(L), RotateLeft(L), Malformed(L), <<>>}
      [] OTHER -> {Identity(L)}

(***************************************************************************)
(* Ranking Parser (specification 4.4; receive_permutation of the base      *)
(* class): bracketed integers in emitted order, out-of-range and repeated  *)
(* ones dropped, never-mentioned indices appended in original order.       *)
(***************************************************************************)
IsBracketedInt(t) == t >= 0

BracketedInts(text) == SelectSeq(text, IsBracketedInt)

RECURSIVE KeepInRange(_, _)
KeepInRange(s, L) ==
    IF s = <<>> THEN <<>>
    ELSE LET rest == KeepInRange(Tail(s), L)
         IN  IF Head(s) \in 1..L THEN <<Head(s)>> \o rest ELSE rest

\* Faulty variant: of a repeated index the last occurrence is kept.
RECURSIVE RemoveDuplicateKeepLast(_)
RemoveDuplicateKeepLast(s) ==
    IF s = <<>> THEN <<>>
    ELSE LET rest == RemoveDuplicateKeepLast(Tail(s))
         IN  IF Head(s) \in Range(rest) THEN rest ELSE <<Head(s)>> \o rest

RECURSIVE RemoveDuplicate(_)
RemoveDuplicate(s) ==
    IF s = <<>> THEN <<>>
    ELSE LET front == RemoveDuplicate(SubSeq(s, 1, Len(s) - 1))
             last  == s[Len(s)]
         IN  IF last \in Range(front) THEN front ELSE Append(front, last)

RECURSIVE Unmentioned(_, _, _)
Unmentioned(kept, k, L) ==
    IF k > L THEN <<>>
    ELSE IF k \in Range(kept) THEN Unmentioned(kept, k + 1, L)
         ELSE <<k>> \o Unmentioned(kept, k + 1, L)

ParsePermutation(text, L) ==
    LET kept == RemoveDuplicate(KeepInRange(BracketedInts(text), L))
    IN  kept \o Unmentioned(kept, 1, L)

(***************************************************************************)
(* Merger (specification 4.4): the window's span start .. end - 1 is       *)
(* overwritten with the new order, local index l naming the candidate at   *)
(* global position l - 1 + start; every other position is untouched.       *)
(***************************************************************************)
GlobalOfLocal(local, start) == local - 1 + start

ReceivePermutation(cands, text, start, end) ==
    LET order == ParsePermutation(text, end - start)
    IN  [p \in 1..Len(cands) |->
            IF start < p /\ p <= end
            THEN cands[GlobalOfLocal(order[p - start], start) + 1]
            ELSE cands[p]]

(***************************************************************************)
(* Windowing Engine (specification 4.1 and 8.7): the first window is the   *)
(* last window_size positions of [rank_start, rank_end); each next window  *)
(* starts step positions nearer the front, its start clipped to            *)
(* rank_start, and spans window_size positions, its end clipped to         *)
(* rank_end.  The window that starts at rank_start is the last one.        *)
(***************************************************************************)
WindowEnd(start, re, W) == Min(start + W, re)

FirstWindow(rs, re, W) ==
    IF re > rs
    THEN LET start == Max(re - W, rs) IN <<start, WindowEnd(start, re, W)>>
    ELSE <<>>

NextWindow(win, rs, re, W, S) ==
    IF win[1] > rs
    THEN LET start == Max(win[1] - S, rs) IN <<start, WindowEnd(start, re, W)>>
    ELSE <<>>

\* shuffle_candidates: the candidates of [rs, re) in any order.
Shuffled(cands, rs, re) ==
    IF re > rs
    THEN {[p \in 1..Len(cands) |->
              IF rs < p /\ p <= re THEN cands[rs + o[p - rs]] ELSE cands[p]]
          : o \in Orderings(re - rs)}
    ELSE {cands}

(***************************************************************************)
(* Prompt Formatter (create_prompt).  A prompt is one unit per candidate   *)
(* of the window.  RankFiDDistill writes the local index i + 1 -           *)
(* rank_start into the passage text; RankFiDScore pairs the passage with   *)
(* the query and writes no index: the model's scores are indexed by the    *)
(* unit's place in the list.                                               *)
(***************************************************************************)
\* Faulty variant: the global position plus one, rank_start not subtracted.
LocalIndexGlobal(g, start) == g + 1

LocalIndex(g, start) == g + 1 - start

CreatePromptDistill(cands, start, end) ==
    [j \in 1..(end - start) |->
        [index |-> LocalIndex(start + j - 1, start), doc |-> cands[start + j]]]

CreatePromptScore(cands, start, end) ==
    [j \in 1..(end - start) |-> [doc |-> cands[start + j]]]

CreatePrompt(strat, cands, start, end) ==
    IF strat = "distill" THEN CreatePromptDistill(cands, start, end)
    ELSE CreatePromptScore(cands, start, end)

(***************************************************************************)
(* Model Invocation Adapter (_run_llm_by_length_unified).                  *)
(***************************************************************************)
\* torch.sort(descending=True) without stable=True: any order of the
\* 0-based indices along which the scores do not increase.
SortDescending(sc) ==
    {[j \in 1..Len(sc) |-> o[j] - 1] :
        o \in {f \in Orderings(Len(sc)) :
                 \A j \in 1..(Len(sc) - 1) : sc[f[j]] >= sc[f[j + 1]]}}

\* Faulty variant: the 0-based indices are written as they are.
FormatRankingZeroBased(idxes) == [j \in 1..Len(idxes) |-> idxes[j]]

\* " > ".join([f"[{x + 1}]" for x in idxes[i].tolist()])
FormatRanking(idxes) == [j \in 1..Len(idxes) |-> idxes[j] + 1]

ScoreVectors(L) == [1..L -> 0..MaxScore]

\* The candidate the model means by "[k]" in its answer to a prompt: the
\* unit that carries index k (distill), the k-th unit (score); 0 if none.
LabelledDoc(strat, prompt, k) ==
    IF strat = "distill"
    THEN IF \E j \in 1..Len(prompt) : prompt[j].index = k
         THEN prompt[CHOOSE j \in 1..Len(prompt) : prompt[j].index = k].doc
         ELSE 0
    ELSE IF k \in 1..Len(prompt) THEN prompt[k].doc ELSE 0

(***************************************************************************)
(* rerank_batch: the expressions of its body.                              *)
(***************************************************************************)
\* self._window_size and self._stride as the constructor leaves them.
self_window_size == DefaultWindowSize

self_stride == DefaultStepSize

\* Faulty variant: max instead of min.
EffectiveWindowSizeMax(kw) ==
    Max(KwGet(kw, "window_size", self_window_size),
        KwGet(kw, "top_k_retrieve", DefaultTopKRetrieve))

\* window_size = min(kwargs.get("window_size", self._window_size), top_k_retrieve)
EffectiveWindowSize(kw) ==
    Min(KwGet(kw, "window_size", self_window_size),
        KwGet(kw, "top_k_retrieve", DefaultTopKRetrieve))

\* len(set([len(req.candidates) for req in requests])) != 1
SizesMismatch(reqs) ==
    Cardinality({Len(reqs[r]) : r \in 1..Len(reqs)}) # 1

\* Faulty variant: the slice runs to the end of the request list.
BatchLastAll(idx, bs, n) == n

\* requests[i : min(i + batch_size, len(requests))]: the 1-based index of
\* the last Request of the batch that starts at 0-based index idx.
BatchLast(idx, bs, n) == Min(idx + bs, n)

\* Faulty variant: a negative rank_start is passed on as it is.
ClipRankStartRaw(rs) == rs

\* rank_start=max(rank_start, 0)
ClipRankStart(rs) == Max(rs, 0)

\* Faulty variant: the first Request's size bounds every Request.
ClipRankEndFirst(isBatched, reqs, r, re) == Min(re, Len(reqs[1]))

\* rank_end=min(rank_end, len(requests[0].candidates)) in batched mode,
\* rank_end=min(rank_end, len(request.candidates)) otherwise.
ClipRankEnd(isBatched, reqs, r, re) ==
    IF isBatched THEN Min(re, Len(reqs[1])) ELSE Min(re, Len(reqs[r]))

\* The Results a group starts from: copies of its Requests' candidates,
\* shuffled inside [rs, re) when shuffle_candidates is set.
InitialWorks(reqs, first, last, shuffle, rs, re) ==
    LET g == last - first + 1
        choices(m) == IF shuffle THEN Shuffled(reqs[first + m - 1], rs, re)
                      ELSE {reqs[first + m - 1]}
    IN  {w \in [1..g -> UNION {choices(m) : m \in 1..g}] :
            \A m \in 1..g : w[m] \in choices(m)}

(***************************************************************************)
(* Initial states: a reranker as its constructor leaves it and the         *)
(* arguments of one rerank_batch call.                                     *)
(***************************************************************************)
Opt(S) == {<<>>} \cup {<<v>> : v \in S}

RequestLists(sizes, maxReq) ==
    UNION {{[r \in 1..n |-> Candidates(r, sz[r])] : sz \in [1..n -> sizes]}
           : n \in 0..maxReq}

KwargsSet(TK, WS, SS, BS) ==
    [top_k_retrieve : TK, window_size : WS, step_size : SS, batch_size : BS]

NotParsing ==
    /\ ptext = <<>>
    /\ plen = 0
    /\ pout = <<>>
    /\ pdone = TRUE

\* self._output_token_estimate = None, and no utility method called yet.
NoUtilityCall ==
    /\ output_token_estimate = <<>>
    /\ op = "none"
    /\ arg = <<>>
    /\ ret = <<>>
    /\ nCalls = 0
    /\ nEncodes = 0
    /\ estimateBefore = <<>>
    /\ encodesBefore = 0

NotCalled ==
    /\ pc = "idle"
    /\ error = "none"
    /\ window_size = 0
    /\ step = 0
    /\ batch_size = 0
    /\ i = 0
    /\ results = <<>>
    /\ lo = 0
    /\ work = <<>>
    /\ window = <<>>
    /\ visited = <<>>
    /\ prompts = <<>>
    /\ scores = <<>>
    /\ response = <<>>
    /\ n_passages = 0
    /\ nInvocations = 0
    /\ nMerges = 0
    /\ pre = <<>>
    /\ lastPrompts = <<>>
    /\ lastResponse = <<>>
    /\ sw_rank_start = 0
    /\ sw_rank_end = 0

InitWith(strategies, batchedSet, family, reqs, starts, ends, shuffles, kws) ==
    /\ strategy \in strategies
    /\ batched \in batchedSet
    /\ llm = family
    /\ requests \in reqs
    /\ rank_start \in starts
    /\ rank_end \in ends
    /\ shuffle_candidates \in shuffles
    /\ kwargs \in kws
    /\ NotCalled
    /\ NotParsing
    /\ NoUtilityCall

\* Calls without shuffling, over every combination of the other arguments.
InitPlain ==
    InitWith({"distill", "score"}, BOOLEAN, "any",
             RequestLists({MaxN - 1, MaxN}, MaxReq),
             {0, 1}, {MaxN - 1, MaxN + 1}, {FALSE},
             KwargsSet(Opt({MaxN - 1}), Opt({0}), {<<0>>, <<1>>, <<2>>},
                       Opt({MaxReq})))

\* Calls with shuffle_candidates set.
InitShuffle ==
    InitWith({"distill", "score"}, BOOLEAN, "any",
             RequestLists({MaxN}, 1),
             {0, 1}, {MaxN + 1}, {TRUE},
             KwargsSet(Opt({MaxN - 1}), {<<>>}, {<<1>>}, {<<>>}))

Init == InitPlain \/ InitShuffle

\* One Request of up to MaxWinN candidates, every combination of bounds,
\* window size and step, and a model that answers the identity ranking.
InitWindows ==
    InitWith({"distill"}, {FALSE}, "echo",
             RequestLists(0..MaxWinN, 1),
             (0 - 1)..(MaxWinN - 2), 0..(MaxWinN + 1), {FALSE},
             KwargsSet(Opt({MaxWinN - 3}), Opt(1..(MaxWinN - 2)),
                       Opt(1..(MaxWinN - 2)), {<<>>}))

\* The end-to-end scenario: one Request of 25 candidates, window_size=20,
\* step_size=10, rank_start=0, rank_end=25, a model that answers with a
\* handful of well-formed and malformed rankings.
InitScenario ==
    InitWith({"distill"}, BOOLEAN, "shapes",
             {<<Candidates(1, 25)>>}, {0}, {25}, {FALSE},
             KwargsSet({<<>>}, {<<20>>}, {<<10>>}, {<<>>}))

\* The parser alone: any text of at most MaxParseLen items, bracketed
\* integers up to two past the window length or junk, for any window
\* length up to MaxParseLen.  No rerank_batch call is in progress.
InitParse ==
    /\ plen \in 0..MaxParseLen
    /\ ptext \in UNION {[1..n -> Junk..(plen + 2)] : n \in 0..MaxParseLen}
    /\ pout = <<>>
    /\ pdone = FALSE
    /\ strategy = "distill"
    /\ batched = FALSE
    /\ llm = "any"
    /\ requests = <<>>
    /\ rank_start = 0
    /\ rank_end = 0
    /\ shuffle_candidates = FALSE
    /\ kwargs \in KwargsSet({<<>>}, {<<>>}, {<<>>}, {<<>>})
    /\ NotCalled
    /\ NoUtilityCall

(***************************************************************************)
(* rerank_batch up to its loop: the keyword arguments and the batch shape  *)
(* check.                                                                  *)
(***************************************************************************)
RerankBatch ==
    /\ pc = "idle"
    /\ window_size' = EffectiveWindowSize(kwargs)
    /\ step' = KwGet(kwargs, "step_size", self_stride)
    /\ batch_size' = KwGet(kwargs, "batch_size", DefaultBatchSize)
    /\ IF batched /\ SizesMismatch(requests)
       THEN pc' = "raised" /\ error' = "BatchShapeError"
       ELSE pc' = "loop" /\ error' = error
    /\ i' = 0
    /\ results' = <<>>
    /\ UNCHANGED <<utilVars, callVars, parseVars, lo, work, window, visited, prompts,
                   scores, response, n_passages, nInvocations, nMerges, pre,
                   lastPrompts, lastResponse, sw_rank_start, sw_rank_end>>

(***************************************************************************)
(* The loop header of rerank_batch: return the results, or hand the next   *)
(* Request (the next batch, in batched mode) to sliding_windows            *)
(* (sliding_windows_batched), which validates window_size and step,        *)
(* copies the candidates and computes the first window.                    *)
(***************************************************************************)
NextGroup ==
    /\ pc = "loop"
    /\ IF i >= Len(requests)
       THEN /\ pc' = "done"
            /\ UNCHANGED <<error, lo, work, window, visited, sw_rank_start,
                           sw_rank_end>>
       ELSE LET first == i + 1
                last  == IF batched
                         THEN BatchLast(i, batch_size, Len(requests))
                         ELSE i + 1
                rs    == ClipRankStart(rank_start)
                re    == ClipRankEnd(batched, requests, first, rank_end)
            IN  IF window_size <= 0 \/ step <= 0
                THEN /\ pc' = "raised"
                     /\ error' = "ConfigurationError"
                     /\ UNCHANGED <<lo, work, window, visited, sw_rank_start,
                                    sw_rank_end>>
                ELSE /\ pc' = "window"
                     /\ error' = error
                     /\ lo' = first
                     /\ sw_rank_start' = rs
                     /\ sw_rank_end' = re
                     /\ work' \in InitialWorks(requests, first, last,
                                               shuffle_candidates, rs, re)
                     /\ window' = FirstWindow(rs, re, window_size)
                     /\ visited' = <<>>
    /\ UNCHANGED <<utilVars, callVars, parseVars, window_size, step, batch_size, i,
                   results, prompts, scores, response, n_passages,
                   nInvocations, nMerges, pre, lastPrompts, lastResponse>>

(***************************************************************************)
(* One window of the group: create_prompt(_batched), then run_llm          *)
(* (run_llm_batched), i.e. one call of _run_llm_by_length_unified with     *)
(* the prompts of every member of the group.                               *)
(***************************************************************************)
\* Faulty variant: only the first member of the group gets a prompt.
GroupPromptsFirstOnly(strat, w, win) ==
    [m \in 1..Min(1, Len(w)) |-> CreatePrompt(strat, w[m], win[1], win[2])]

GroupPrompts(strat, w, win) ==
    [m \in 1..Len(w) |-> CreatePrompt(strat, w[m], win[1], win[2])]

\* n_passages = len(batch_prompts[0])
PassageCount(batch_prompts) == Len(batch_prompts[1])

\* RankFiDDistill: one decoded text per member of the batch.
DistillOutputs(family, batch_prompts) ==
    {[scores |-> <<>>, response |-> r] :
        r \in [1..Len(batch_prompts) ->
                 ModelTexts(family, PassageCount(batch_prompts))]}

\* RankFiDScore: one score vector per member of the batch, sorted
\* descending and formatted as a ranked-index text.
ScoreOutputs(batch_prompts) ==
    LET g == Len(batch_prompts)
        L == PassageCount(batch_prompts)
        texts(sc) == {FormatRanking(x) : x \in SortDescending(sc)}
    IN  UNION {{[scores |-> sc, response |-> r] :
                   r \in {q \in [1..g -> UNION {texts(sc[m]) : m \in 1..g}] :
                             \A m \in 1..g : q[m] \in texts(sc[m])}}
               : sc \in [1..g -> ScoreVectors(L)]}

\* Faulty variant: the passage count is left as the last invocation set it.
ResetPassagesSkipped(strat, batch_prompts, old) == old

\* self._llm.reset_n_passages(n_passages=n_passages) (RankFiDDistill only;
\* RankFiDScore passes n_passages to generate).
ResetPassages(strat, batch_prompts, old) ==
    IF strat = "distill" THEN PassageCount(batch_prompts) ELSE old

\* What one call may return, with the passage count it leaves in the
\* model.  An empty batch returns [] before the model is touched.
RunLlmByLengthUnified(strat, family, batch_prompts, old) ==
    IF Len(batch_prompts) = 0
    THEN {[scores |-> <<>>, response |-> <<>>, n_passages |-> old]}
    ELSE {[scores |-> out.scores, response |-> out.response,
           n_passages |-> ResetPassages(strat, batch_prompts, old)] :
             out \in IF strat = "distill"
                     THEN DistillOutputs(family, batch_prompts)
                     ELSE ScoreOutputs(batch_prompts)}

RunLlm ==
    /\ pc = "window"
    /\ window # <<>>
    /\ LET ps == GroupPrompts(strategy, work, window)
       IN  /\ prompts' = ps
           /\ \E out \in RunLlmByLengthUnified(strategy, llm, ps, n_passages) :
                 /\ scores' = out.scores
                 /\ response' = out.response
                 /\ n_passages' = out.n_passages
    /\ nInvocations' = nInvocations + 1
    /\ pc' = "invoked"
    /\ UNCHANGED <<utilVars, callVars, parseVars, error, window_size, step, batch_size,
                   i, results, lo, work, window, visited, pre, lastPrompts,
                   lastResponse, sw_rank_start, sw_rank_end, nMerges>>

\* Faulty variant: the exception is caught and recorded, and the window goes on
\* to the merge with empty answers.
RunLlmFailsCaught ==
    /\ pc = "window"
    /\ window # <<>>
    /\ LET ps == GroupPrompts(strategy, work, window)
       IN  /\ Len(ps) > 0
           /\ prompts' = ps
           /\ n_passages' = ResetPassages(strategy, ps, n_passages)
           /\ response' = [m \in 1..Len(ps) |-> <<>>]
    /\ nInvocations' = nInvocations + 1
    /\ pc' = "invoked"
    /\ error' = "ModelError"
    /\ UNCHANGED <<utilVars, callVars, parseVars, window_size, step, batch_size, i,
                   results, lo, work, window, visited, scores, pre,
                   lastPrompts, lastResponse, sw_rank_start, sw_rank_end,
                   nMerges>>

\* generate raises (device or resource exhaustion): nothing catches it, the
\* exception leaves rerank_batch.  The passage count was reset before.
RunLlmFails ==
    /\ pc = "window"
    /\ window # <<>>
    /\ LET ps == GroupPrompts(strategy, work, window)
       IN  /\ Len(ps) > 0
           /\ prompts' = ps
           /\ n_passages' = ResetPassages(strategy, ps, n_passages)
    /\ nInvocations' = nInvocations + 1
    /\ pc' = "raised"
    /\ error' = "ModelError"
    /\ UNCHANGED <<utilVars, callVars, parseVars, window_size, step, batch_size, i,
                   results, lo, work, window, visited, scores, response, pre,
                   lastPrompts, lastResponse, sw_rank_start, sw_rank_end,
                   nMerges>>

(***************************************************************************)
(* receive_permutation for every member of the group, then the step to     *)
(* the next window.                                                        *)
(***************************************************************************)
MergeGroup(w, resp, win) ==
    [m \in 1..Len(w) |-> ReceivePermutation(w[m], resp[m], win[1], win[2])]

Merge ==
    /\ pc = "invoked"
    /\ pre' = work
    /\ work' = MergeGroup(work, response, window)
    /\ visited' = Append(visited, window)
    /\ window' = NextWindow(window, sw_rank_start, sw_rank_end, window_size,
                            step)
    /\ lastPrompts' = prompts
    /\ lastResponse' = response
    /\ nMerges' = nMerges + 1
    /\ pc' = "window"
    /\ UNCHANGED <<utilVars, callVars, parseVars, error, window_size, step, batch_size,
                   i, results, lo, prompts, scores, response, n_passages,
                   nInvocations, sw_rank_start, sw_rank_end>>

\* No window is left: the group's Results join the result list
\* (result.extend(batch_result), results.append(result)) and the loop
\* moves on by batch_size (batched) or by one Request.
\* Faulty variant: the batched loop advances by one Request instead of batch_size.
LoopStrideOne(isBatched, bs) == 1

LoopStride(isBatched, bs) == IF isBatched THEN bs ELSE 1

FinishGroup ==
    /\ pc = "window"
    /\ window = <<>>
    /\ results' = results \o work
    /\ i' = i + LoopStride(batched, batch_size)
    /\ pc' = "loop"
    /\ UNCHANGED <<utilVars, callVars, parseVars, error, window_size, step, batch_size,
                   lo, work, window, visited, prompts, scores, response,
                   n_passages, nInvocations, nMerges, pre, lastPrompts, lastResponse,
                   sw_rank_start, sw_rank_end>>

Next ==
    \/ RerankBatch
    \/ NextGroup
    \/ RunLlm
    \/ RunLlmFails
    \/ Merge
    \/ FinishGroup

Spec == Init /\ [][Next]_vars

SpecWindows == InitWindows /\ [][Next]_vars

SpecScenario == InitScenario /\ [][Next]_vars

(***************************************************************************)
(* The parser applied to a text.                                           *)
(***************************************************************************)
ParseText ==
    /\ ~pdone
    /\ pout' = ParsePermutation(ptext, plen)
    /\ pdone' = TRUE
    /\ UNCHANGED <<utilVars, callVars, ptext, plen, pc, error, window_size, step,
                   batch_size, i, results, lo, work, window, visited, prompts,
                   scores, response, n_passages, nInvocations, nMerges, pre,
                   lastPrompts, lastResponse, sw_rank_start, sw_rank_end>>

NextParse == ParseText

SpecParse == InitParse /\ [][NextParse]_vars

(***************************************************************************)
(* The utility methods: get_num_tokens, num_output_tokens and the scan     *)
(* for the end-of-answer marker in _run_llm_by_length_unified of           *)
(* RankFiDScore.  A string is a sequence of words; the tokenizer encodes   *)
(* it as one token per word plus the end-of-sequence token it appends.     *)
(***************************************************************************)
Strings == UNION {[1..n -> 1..2] : n \in 0..MaxStrLen}

UnitLists == UNION {[1..n -> Strings] : n \in 0..MaxUnits}

\* len(self._tokenizer.encode(s))
EncodeLen(s) == Len(s) + 1

RECURSIVE SumEncodeLen(_)
SumEncodeLen(units) ==
    IF units = <<>> THEN 0
    ELSE EncodeLen(Head(units)) + SumEncodeLen(Tail(units))

\* The shapes of a prompt: a string, a list of text units, a list with an
\* item that has no "text", anything else (None, a number, a dict).
PromptShapes ==
    {[kind |-> "str", text |-> t, units |-> <<>>] : t \in Strings}
    \cup {[kind |-> "list", text |-> <<>>, units |-> u] : u \in UnitLists}
    \cup {[kind |-> k, text |-> <<>>, units |-> <<>>] :
             k \in {"badlist", "other"}}

Returned(v) == [value |-> v, error |-> "none"]

Raised(e) == [value |-> 0, error |-> e]

\* RankFiDDistill.get_num_tokens
GetNumTokensDistill(prompt) ==
    CASE prompt.kind = "str" ->
            {[ret |-> Returned(EncodeLen(prompt.text)), encodes |-> 1]}
      [] prompt.kind = "list" ->
            {[ret |-> Returned(SumEncodeLen(prompt.units)),
              encodes |-> Len(prompt.units)]}
      [] prompt.kind = "badlist" ->
            {[ret |-> Raised("ItemError"), encodes |-> 0]}
      [] OTHER ->
            {[ret |-> Raised("InputTypeError"), encodes |-> 0]}

\* RankFiDScore.get_num_tokens: the prompt goes to the tokenizer whatever
\* it is; what the tokenizer makes of a non-string is its own affair (it
\* raises its own error or returns some count).
GetNumTokensScore(prompt) ==
    IF prompt.kind = "str"
    THEN {[ret |-> Returned(EncodeLen(prompt.text)), encodes |-> 1]}
    ELSE {[ret |-> Raised("TokenizerError"), encodes |-> 1]}
         \cup {[ret |-> Returned(v), encodes |-> 1] :
                  v \in 0..(MaxUnits * (MaxStrLen + 1))}

GetNumTokens ==
    /\ nCalls < MaxCalls
    /\ \E prompt \in PromptShapes :
          \E out \in IF strategy = "distill"
                     THEN GetNumTokensDistill(prompt)
                     ELSE GetNumTokensScore(prompt) :
             /\ op' = "get_num_tokens"
             /\ arg' = prompt
             /\ ret' = out.ret
             /\ nEncodes' = nEncodes + out.encodes
    /\ nCalls' = nCalls + 1
    /\ estimateBefore' = output_token_estimate
    /\ encodesBefore' = nEncodes
    /\ UNCHANGED <<callVars, parseVars, output_token_estimate, pc, error,
                   window_size, step, batch_size, i, results, lo, work,
                   window, visited, prompts, scores, response, n_passages,
                   nInvocations, nMerges, pre, lastPrompts, lastResponse,
                   sw_rank_start, sw_rank_end>>

\* " > ".join([f"[{i + 1}]" for i in range(current_window_size)]): the
\* indices 1..W with a separator word between neighbours.
Separator == 0

OutputText(W) ==
    [k \in 1..Max(2 * W - 1, 0) |-> IF k % 2 = 1 THEN (k + 1) \div 2
                                    ELSE Separator]

\* len(self._tokenizer.encode(...)) - 1
OutputTokenEstimate(W) == EncodeLen(OutputText(W)) - 1

\* Faulty variant: the slot is served whatever window size is asked for.
CacheHitAnySize(est, selfW, cur) == est # <<>>

\* self._output_token_estimate is not None
\* and self._window_size == current_window_size
CacheHit(est, selfW, cur) == est # <<>> /\ selfW = cur

\* self._output_token_estimate is None
\* and self._window_size == current_window_size
CacheFill(est, selfW, cur) == est = <<>> /\ selfW = cur

\* The window sizes asked for: None, the configured size and others.
WindowSizeArgs ==
    Opt({0, 1, 2, self_window_size - 1, self_window_size})

NumOutputTokens ==
    /\ nCalls < MaxCalls
    /\ \E a \in WindowSizeArgs :
          LET current_window_size ==
                  IF a = <<>> THEN self_window_size ELSE a[1]
          IN  /\ arg' = a
              /\ IF CacheHit(output_token_estimate, self_window_size,
                             current_window_size)
                 THEN /\ ret' = Returned(output_token_estimate[1])
                      /\ UNCHANGED <<output_token_estimate, nEncodes>>
                 ELSE /\ ret' = Returned(OutputTokenEstimate(
                                             current_window_size))
                      /\ nEncodes' = nEncodes + 1
                      /\ output_token_estimate' =
                            IF CacheFill(output_token_estimate,
                                         self_window_size,
                                         current_window_size)
                            THEN <<OutputTokenEstimate(current_window_size)>>
                            ELSE output_token_estimate
    /\ op' = "num_output_tokens"
    /\ nCalls' = nCalls + 1
    /\ estimateBefore' = output_token_estimate
    /\ encodesBefore' = nEncodes
    /\ UNCHANGED <<callVars, parseVars, pc, error, window_size, step,
                   batch_size, i, results, lo, work, window, visited,
                   prompts, scores, response, n_passages, nInvocations,
                   nMerges, pre, lastPrompts, lastResponse, sw_rank_start,
                   sw_rank_end>>

\* FiDCrossAttentionScore.ANSWER_EOS_TOKEN, among the token ids 0..2.
ANSWER_EOS_TOKEN == 1

TokenIds == 0..2

\* The generated sequences of a batch: a tensor, every row of one width.
OutputTensors ==
    UNION {[1..g -> [1..T -> TokenIds]] :
              g \in 1..MaxReq, T \in 0..MaxOutLen}

\* Faulty variant: without the marker the length stays at its initial 0.
NoMarkerLengthZero(outputs) == 0

\* for ... else: output_length = outputs.shape[1]
NoMarkerLength(outputs) == Len(outputs[1])

\* for j in range(output.shape[0]):
\*     if output[j] == ANSWER_EOS_TOKEN: output_length = j; break
RECURSIVE ScanFrom(_, _, _)
ScanFrom(outputs, output, j) ==
    IF j >= Len(output) THEN NoMarkerLength(outputs)
    ELSE IF output[j + 1] = ANSWER_EOS_TOKEN THEN j
    ELSE ScanFrom(outputs, output, j + 1)

OutputSequenceLengths(outputs) ==
    [m \in 1..Len(outputs) |-> ScanFrom(outputs, outputs[m], 0)]

ScanOutputs ==
    /\ nCalls < MaxCalls
    /\ strategy = "score"
    /\ \E outputs \in OutputTensors :
          /\ arg' = outputs
          /\ ret' = OutputSequenceLengths(outputs)
    /\ op' = "output_sequence_lengths"
    /\ nCalls' = nCalls + 1
    /\ estimateBefore' = output_token_estimate
    /\ encodesBefore' = nEncodes
    /\ UNCHANGED <<callVars, parseVars, output_token_estimate, nEncodes, pc,
                   error, window_size, step, batch_size, i, results, lo,
                   work, window, visited, prompts, scores, response,
                   n_passages, nInvocations, nMerges, pre, lastPrompts,
                   lastResponse, sw_rank_start, sw_rank_end>>

\* A reranker of either strategy as its constructor leaves it; no
\* rerank_batch call is made.
InitUtilities ==
    /\ strategy \in {"distill", "score"}
    /\ batched = FALSE
    /\ llm = "any"
    /\ requests = <<>>
    /\ rank_start = 0
    /\ rank_end = 0
    /\ shuffle_candidates = FALSE
    /\ kwargs \in KwargsSet({<<>>}, {<<>>}, {<<>>}, {<<>>})
    /\ NotCalled
    /\ NotParsing
    /\ NoUtilityCall

NextUtilities ==
    \/ GetNumTokens
    \/ NumOutputTokens
    \/ ScanOutputs

SpecUtilities == InitUtilities /\ [][NextUtilities]_vars

(***************************************************************************)
(* C1.  Every Result, finished or under construction, is a rearrangement   *)
(* of the candidates of the Request it was made from: same length, same    *)
(* multiset of candidate ids, in batched and non-batched mode, for both    *)
(* strategies and whatever the model answered.                             *)
(***************************************************************************)
C1_PermutationInvariant ==
    /\ \A r \in 1..Len(results) :
          /\ r <= Len(requests)
          /\ IsPermutationOf(results[r], requests[r])
    /\ \A m \in 1..Len(work) :
          /\ lo + m - 1 <= Len(requests)
          /\ IsPermutationOf(work[m], requests[lo + m - 1])

\* A batched call returned two Results, both reordered.
C1_Witness ==
    /\ pc = "done"
    /\ batched
    /\ Len(results) = 2
    /\ results[1] # requests[1]
    /\ results[2] # requests[2]

(***************************************************************************)
(* The windows of the current group: those merged, then the pending one.   *)
(***************************************************************************)
AllWindows == visited \o (IF window = <<>> THEN <<>> ELSE <<window>>)

Covered(wins) == UNION {(wins[k][1])..(wins[k][2] - 1) : k \in 1..Len(wins)}

\* Every window of the group has been merged.
GroupFinished == pc = "window" /\ window = <<>>

\* The bounds handed to the Windowing Engine satisfy its contract.
BoundsInContract ==
    /\ 0 <= sw_rank_start
    /\ sw_rank_start <= sw_rank_end
    /\ \A m \in 1..Len(work) : sw_rank_end <= Len(work[m])

C3_AdvanceExactlyStep ==
    pc \in {"window", "invoked"} =>
        \A k \in 1..Len(AllWindows) :
            LET w == AllWindows[k]
            IN  /\ w[1] < w[2]
                /\ w[2] - w[1] <= KwGet(kwargs, "window_size", self_window_size)
                /\ w[2] <= sw_rank_end
                /\ k = 1 => w[2] = sw_rank_end
                /\ k > 1 =>
                      /\ w[1] < AllWindows[k - 1][1]
                      /\ w[1] = AllWindows[k - 1][1]
                                  - KwGet(kwargs, "step_size", self_stride)

(***************************************************************************)
(* C3 amended.  The windows of one Request are visited in descending       *)
(* start order; each start is step below the one before, except that a     *)
(* start that would fall below rank_start is clipped to rank_start (the    *)
(* front window advances by less than step); each window spans at most     *)
(* window_size candidates; no window reaches past rank_end, where the      *)
(* first visited window ends.                                              *)
(***************************************************************************)
C3_WindowOrder ==
    pc \in {"window", "invoked"} =>
        \A k \in 1..Len(AllWindows) :
            LET w == AllWindows[k]
            IN  /\ w[1] < w[2]
                /\ w[2] - w[1] <= KwGet(kwargs, "window_size", self_window_size)
                /\ w[2] <= sw_rank_end
                /\ k = 1 => w[2] = sw_rank_end
                /\ k > 1 =>
                      /\ w[1] < AllWindows[k - 1][1]
                      /\ w[1] = Max(AllWindows[k - 1][1]
                                      - KwGet(kwargs, "step_size", self_stride),
                                    sw_rank_start)

\* Three windows: the second a full step before the first, the third
\* clipped to rank_start after less than a step.
C3_Witness ==
    /\ GroupFinished
    /\ Len(visited) = 3
    /\ visited[1][1] - visited[2][1] = step
    /\ visited[2][1] - visited[3][1] < step
    /\ visited[3][1] = sw_rank_start
    /\ visited[1][2] = sw_rank_end
    /\ visited[3][2] - visited[3][1] = window_size

(***************************************************************************)
(* C4.  25 candidates, window_size=20, step=10, rank_start=0,              *)
(* rank_end=25: exactly two windows, (5,25) then (0,20), one model         *)
(* invocation each; in the returned order positions 0..19 are the          *)
(* candidates the model's answer for (0,20) names, in that order, and      *)
(* positions 20..24 hold what the merge of (5,25) left there.              *)
(***************************************************************************)
C4_Scenario ==
    /\ (pc = "invoked" /\ visited = <<>>) => window = <<5, 25>>
    /\ (pc = "invoked" /\ visited # <<>>) =>
          (visited = <<<<5, 25>>>> /\ window = <<0, 20>>)
    /\ pc = "done" =>
          /\ visited = <<<<5, 25>>, <<0, 20>>>>
          /\ nInvocations = 2
          /\ Len(results) = 1
          /\ Len(results[1]) = 25
          /\ \A j \in 1..20 :
                results[1][j] =
                    LabelledDoc(strategy, lastPrompts[1],
                                ParsePermutation(lastResponse[1], 20)[j])
          /\ \A p \in 21..25 : results[1][p] = pre[1][p]

\* Both windows were answered with the reversed ranking: the tail holds
\* what the first merge put there, the head what the second one did.
C4_Witness ==
    /\ pc = "done"
    /\ lastResponse[1] = Reverse(20)
    /\ results[1][25] = CandId(1, 6)
    /\ results[1][1] = CandId(1, 11)

(***************************************************************************)
(* C5.  When the last two windows of a Request overlap, the later one has  *)
(* the lower start and, once it is merged, the candidates of its range     *)
(* (the overlap included) stand in exactly the order its model output      *)
(* gives: for the distillation strategy the candidates named by the        *)
(* parsed answer, in that order; for the scoring strategy the window's     *)
(* candidates by non-increasing score.                                     *)
(***************************************************************************)
LastWindowsOverlap ==
    /\ Len(visited) >= 2
    /\ visited[Len(visited)][2] > visited[Len(visited) - 1][1]

\* The place (1-based) of candidate d in a prompt, 0 if it is not there.
PlaceInPrompt(prompt, d) ==
    IF \E j \in 1..Len(prompt) : prompt[j].doc = d
    THEN CHOOSE j \in 1..Len(prompt) : prompt[j].doc = d
    ELSE 0

C5_MergePrecedence ==
    (GroupFinished /\ LastWindowsOverlap) =>
        LET w == visited[Len(visited)]
            L == w[2] - w[1]
        IN  /\ w[1] < visited[Len(visited) - 1][1]
            /\ \A m \in 1..Len(work) :
                  IF strategy = "distill"
                  THEN \A j \in 1..L :
                          work[m][w[1] + j] =
                              LabelledDoc(strategy, lastPrompts[m],
                                  ParsePermutation(lastResponse[m], L)[j])
                  ELSE /\ \A j \in 1..L :
                            PlaceInPrompt(lastPrompts[m], work[m][w[1] + j])
                                \in 1..L
                       /\ \A j \in 1..(L - 1) :
                            scores[m][PlaceInPrompt(lastPrompts[m],
                                                    work[m][w[1] + j])]
                              >= scores[m][PlaceInPrompt(lastPrompts[m],
                                                    work[m][w[1] + j + 1])]

\* The earlier window moved a candidate to the overlap's head and the
\* later window moved it away again.
C5_Witness ==
    /\ GroupFinished
    /\ LastWindowsOverlap
    /\ Len(visited) = 2
    /\ visited = <<<<1, 3>>, <<0, 2>>>>
    /\ pre[1][2] = CandId(lo, 3)
    /\ work[1][1] = CandId(lo, 3)
    /\ work[1][2] = CandId(lo, 1)

(***************************************************************************)
(* C6.  After the merge of a window (start, end): every candidate at a     *)
(* position below start or at/after end is where it was; the span holds    *)
(* the same set of candidates as before; position start + j holds the      *)
(* candidate that stood at global position local - 1 + start, local being  *)
(* the j-th index (j from 0) of the parsed answer; and that is the         *)
(* candidate the prompt showed under index local.                          *)
(***************************************************************************)
C6_MergeFrame ==
    (pc \in {"window", "invoked"} /\ visited # <<>>) =>
        LET w == visited[Len(visited)]
            s == w[1]
            e == w[2]
        IN  \A m \in 1..Len(work) :
               LET order == ParsePermutation(lastResponse[m], e - s)
               IN  /\ Len(work[m]) = Len(pre[m])
                   /\ \A p \in 1..Len(work[m]) :
                         (p <= s \/ p > e) => work[m][p] = pre[m][p]
                   /\ {work[m][p] : p \in (s + 1)..e}
                         = {pre[m][p] : p \in (s + 1)..e}
                   /\ \A j \in 1..(e - s) :
                         /\ work[m][s + j] = pre[m][(order[j] - 1 + s) + 1]
                         /\ work[m][s + j]
                              = LabelledDoc(strategy, lastPrompts[m], order[j])

\* The window (1, 3) exchanged the candidates at global positions 1 and 2
\* (local indices 1 and 2 under start 1); then the window (0, 2) exchanged
\* those at positions 0 and 1 and left position 2 as it was.
C6_Witness ==
    /\ pc = "window"
    /\ visited = <<<<1, 3>>, <<0, 2>>>>
    /\ Len(work[1]) = 3
    /\ pre[1] = <<CandId(lo, 1), CandId(lo, 3), CandId(lo, 2)>>
    /\ work[1] = <<CandId(lo, 3), CandId(lo, 1), CandId(lo, 2)>>

(***************************************************************************)
(* C7.  The parsed order of any text over a window of length L is a        *)
(* permutation of 1..L: the indices of 1..L that the text mentions, in     *)
(* the order of their first mention, then the indices it never mentions    *)
(* in ascending order.  "[2] > [5] > [1]" with L = 3 gives [2, 1, 3].      *)
(***************************************************************************)
Mentioned(text, L) == {k \in 1..L : \E q \in 1..Len(text) : text[q] = k}

FirstMention(text, k) ==
    CHOOSE q \in 1..Len(text) :
        text[q] = k /\ \A r \in 1..(q - 1) : text[r] # k

C7_LenientParse ==
    pdone =>
        LET M == Mentioned(ptext, plen)
        IN  /\ Len(pout) = plen
            /\ Range(pout) = 1..plen
            /\ \A a \in 1..plen : (pout[a] \in M) <=> (a <= Cardinality(M))
            /\ \A a, b \in 1..plen :
                  (a < b /\ pout[b] \in M) =>
                      FirstMention(ptext, pout[a]) < FirstMention(ptext, pout[b])
            /\ \A a, b \in 1..plen :
                  (a < b /\ pout[a] \notin M) => pout[a] < pout[b]
            /\ (ptext = <<2, 5, 1>> /\ plen = 3) => pout = <<2, 1, 3>>

\* The example of the claim, parsed.
C7_Witness ==
    /\ pdone
    /\ ptext = <<2, 5, 1>>
    /\ plen = 3
    /\ pout = <<2, 1, 3>>

(***************************************************************************)
(* C8 as stated.  In batched mode, Requests whose candidate-set sizes are  *)
(* not all equal raise the shape error before any model invocation and     *)
(* before any reordering; when all sizes are equal the call proceeds       *)
(* without that error.                                                     *)
(***************************************************************************)
AllSizesEqual(reqs) ==
    \A a, b \in 1..Len(reqs) : Len(reqs[a]) = Len(reqs[b])

C8_BatchShapeCheck ==
    (pc # "idle" /\ batched) =>
        IF AllSizesEqual(requests)
        THEN error # "BatchShapeError"
        ELSE /\ pc = "raised"
             /\ error = "BatchShapeError"
             /\ nInvocations = 0
             /\ nMerges = 0
             /\ work = <<>>
             /\ results = <<>>

(***************************************************************************)
(* C9 as stated.  A call whose window size or step is <= 0 ends with a     *)
(* ConfigurationError, and without a window, a model invocation or a       *)
(* reordered candidate.                                                    *)
(***************************************************************************)
C9_ConfigurationError ==
    (pc \in {"done", "raised"} /\ (window_size <= 0 \/ step <= 0)) =>
        /\ pc = "raised"
        /\ error = "ConfigurationError"
        /\ nInvocations = 0
        /\ nMerges = 0
        /\ work = <<>>
        /\ results = <<>>

(***************************************************************************)
(* C10.  A window is merged only after its model invocation returned one   *)
(* answer per Request of the group: merges never outnumber the             *)
(* invocations that returned.  A failed invocation ends the call with the  *)
(* model's error; its window is not among the merged ones, and the         *)
(* candidates are exactly what the prompt of that window was made from     *)
(* and what the last completed merge left.                                 *)
(***************************************************************************)
C10_MergeAfterSuccess ==
    /\ error = "ModelError" =>
          /\ pc = "raised"
          /\ nMerges = nInvocations - 1
          /\ window # <<>>
          /\ \A k \in 1..Len(visited) : visited[k] # window
          /\ prompts = GroupPrompts(strategy, work, window)
          /\ visited # <<>> =>
                work = MergeGroup(pre, lastResponse, visited[Len(visited)])
          /\ visited = <<>> =>
                \A m \in 1..Len(work) :
                    IsPermutationOf(work[m], requests[lo + m - 1])
    /\ pc = "invoked" =>
          /\ error = "none"
          /\ nMerges = nInvocations - 1
          /\ Len(response) = Len(work)
          /\ \A k \in 1..Len(visited) : visited[k] # window
          /\ prompts = GroupPrompts(strategy, work, window)
    /\ (pc \in {"loop", "window", "done"} \/ error \in
            {"BatchShapeError", "ConfigurationError"}) =>
          nMerges = nInvocations

\* The model failed on the second window of a batch of two Requests, after
\* the first window had reordered both.
C10_Witness ==
    /\ pc = "raised"
    /\ error = "ModelError"
    /\ batched
    /\ Len(work) = 2
    /\ Len(visited) = 1
    /\ work[1] # requests[lo]
    /\ work[2] # requests[lo + 1]

(***************************************************************************)
(* C11 as stated.  Strategy B orders the passages of a window by score     *)
(* descending and, among equal scores, by original local index: the        *)
(* emitted ranking is the stable descending order of the score vector,     *)
(* and it lists every local index exactly once.                            *)
(***************************************************************************)
StableDescending(sc) ==
    CHOOSE o \in Orderings(Len(sc)) :
        \A j \in 1..(Len(sc) - 1) :
            \/ sc[o[j]] > sc[o[j + 1]]
            \/ sc[o[j]] = sc[o[j + 1]] /\ o[j] < o[j + 1]

C11_StableSort ==
    (pc = "invoked" /\ strategy = "score") =>
        \A m \in 1..Len(response) :
            /\ response[m] \in Orderings(Len(prompts[m]))
            /\ response[m] = StableDescending(scores[m])

(***************************************************************************)
(* C14.  In batched mode every window position of a batch has one model    *)
(* invocation that carries one prompt per Request of the batch, each made  *)
(* from the same window; the invocations of a batch are as many as its     *)
(* window positions, and when the next position is invoked every Request   *)
(* of the batch holds the merge of the previous one.                       *)
(***************************************************************************)
C14_BatchLockstep ==
    (batched /\ pc \in {"window", "invoked"}) =>
        /\ Len(work) = BatchLast(i, batch_size, Len(requests)) - i
        /\ nInvocations = nMerges + (IF pc = "invoked" THEN 1 ELSE 0)
        /\ \A a, b \in 1..Len(visited) : a < b => visited[a][1] > visited[b][1]
        /\ visited # <<>> =>
              /\ Len(lastPrompts) = Len(work)
              /\ Len(lastResponse) = Len(work)
              /\ work = MergeGroup(pre, lastResponse, visited[Len(visited)])
        /\ pc = "invoked" =>
              /\ Len(prompts) = Len(work)
              /\ Len(response) = Len(work)
              /\ \A m \in 1..Len(work) :
                    prompts[m] = CreatePrompt(strategy, work[m], window[1],
                                              window[2])
              /\ \A k \in 1..Len(visited) : visited[k][1] > window[1]

\* The second window position of a batch of two is invoked after the first
\* has reordered both Requests.
C14_Witness ==
    /\ batched
    /\ pc = "invoked"
    /\ Len(work) = 2
    /\ Len(prompts) = 2
    /\ visited = <<<<1, 3>>>>
    /\ window = <<0, 2>>
    /\ work[1] # requests[lo]
    /\ work[2] # requests[lo + 1]

(***************************************************************************)
(* C15.  With batching disabled the Requests are reranked one at a time    *)
(* in input order: while a Request is in its windows every earlier         *)
(* Request has its Result and no later one has started, every invocation   *)
(* carries one prompt, Requests of different sizes raise no shape error,   *)
(* and each Request's windows end at min(rank_end, its own size).          *)
(***************************************************************************)
C15_OneAtATime ==
    ~batched =>
        /\ error # "BatchShapeError"
        /\ Len(work) <= 1
        /\ pc \in {"window", "invoked"} =>
              /\ Len(work) = 1
              /\ lo = i + 1
              /\ Len(results) = i
              /\ IsPermutationOf(work[1], requests[lo])
              /\ sw_rank_end = Min(rank_end, Len(requests[lo]))
              /\ \A k \in 1..Len(visited) : visited[k][2] <= Len(requests[lo])
        /\ pc = "invoked" => Len(prompts) = 1 /\ Len(response) = 1
        /\ \A k \in 1..Len(results) : IsPermutationOf(results[k], requests[k])

\* The second, longer Request is in its window after the first, shorter
\* one was finished and reordered.
C15_Witness ==
    /\ ~batched
    /\ pc = "invoked"
    /\ Len(requests) = 2
    /\ Len(requests[1]) < Len(requests[2])
    /\ lo = 2
    /\ Len(results) = 1
    /\ results[1] # requests[1]
    /\ window[2] = Len(requests[2])

(***************************************************************************)
(* C16.  During every Strategy A generation the model's passage count      *)
(* equals the number of passages of every prompt of that invocation,       *)
(* whatever the earlier invocations set it to.                             *)
(***************************************************************************)
C16_PassageCount ==
    (strategy = "distill" /\ pc = "invoked") =>
        \A m \in 1..Len(prompts) :
            /\ n_passages = Len(prompts[m])
            /\ n_passages = window[2] - window[1]

\* An invocation with three passages follows one with two.
C16_Witness ==
    /\ strategy = "distill"
    /\ pc = "invoked"
    /\ n_passages = 3
    /\ lastPrompts # <<>>
    /\ Len(lastPrompts[1]) = 2

(***************************************************************************)
(* C18.  In batched mode with batch_size >= 1 the batches are consecutive  *)
(* slices of the request list: each starts where the last one ended,       *)
(* holds batch_size Requests (the last one what is left), and the Results  *)
(* collected so far are those of the Requests before it.  In both modes    *)
(* the call returns one Result per Request, in the order of the Requests.  *)
(***************************************************************************)
C18_BatchPartition ==
    (error = "none" /\ batch_size >= 1 /\ pc # "idle") =>
        /\ pc \in {"window", "invoked"} =>
              /\ lo = i + 1
              /\ Len(results) = i
              /\ Len(work) >= 1
              /\ Len(work) = IF batched
                             THEN Min(batch_size, Len(requests) - i)
                             ELSE 1
              /\ batched => i % batch_size = 0
              /\ \A m \in 1..Len(work) :
                    IsPermutationOf(work[m], requests[i + m])
        /\ pc = "loop" => Len(results) = Min(i, Len(requests))
        /\ pc = "done" => Len(results) = Len(requests)
        /\ Len(results) <= Len(requests)
        /\ \A k \in 1..Len(results) : IsPermutationOf(results[k], requests[k])

\* Two Requests in two batches of one, both reordered, returned in order.
C18_Witness ==
    /\ batched
    /\ batch_size = 1
    /\ pc = "done"
    /\ Len(requests) = 2
    /\ Len(results) = 2
    /\ results[1] # requests[1]
    /\ results[2] # requests[2]
    /\ IsPermutationOf(results[2], requests[2])

(***************************************************************************)
(* C12 as stated.  For both rerankers get_num_tokens returns the encoded   *)
(* length of a string, the sum of the encoded lengths of the units of a    *)
(* list of text units, and raises the input type error for every other     *)
(* input.                                                                  *)
(***************************************************************************)
C12_GetNumTokens ==
    op = "get_num_tokens" =>
        CASE arg.kind = "str" -> ret = Returned(Len(arg.text) + 1)
          [] arg.kind = "list" -> ret = Returned(SumEncodeLen(arg.units))
          [] OTHER -> ret.error = "InputTypeError"

(***************************************************************************)
(* C13.  num_output_tokens always returns the estimate of the window size  *)
(* asked for (the configured one for None).  Once the slot is filled, a    *)
(* call for the cached window size is served from it without encoding      *)
(* anything; the slot always holds the estimate of the configured window   *)
(* size, and no call for the cached size, or any other call, replaces it.  *)
(***************************************************************************)
C13_SingleSlotCache ==
    /\ output_token_estimate # <<>> =>
          output_token_estimate = <<OutputTokenEstimate(self_window_size)>>
    /\ estimateBefore # <<>> => output_token_estimate = estimateBefore
    /\ op = "num_output_tokens" =>
          LET requested == IF arg = <<>> THEN self_window_size ELSE arg[1]
          IN  /\ ret = Returned(IF requested <= 0 THEN 0
                                ELSE 2 * requested - 1)
              /\ (estimateBefore # <<>> /\ requested = self_window_size) =>
                    /\ nEncodes = encodesBefore
                    /\ ret.value = estimateBefore[1]
              /\ (estimateBefore = <<>> \/ requested # self_window_size) =>
                    nEncodes = encodesBefore + 1
              /\ output_token_estimate # estimateBefore =>
                    /\ estimateBefore = <<>>
                    /\ requested = self_window_size

\* The third call is served from the slot that the first call filled; the
\* call between them asked for another window size or counted tokens.
C13_Witness ==
    /\ op = "num_output_tokens"
    /\ nCalls = 3
    /\ arg = <<self_window_size>>
    /\ estimateBefore = <<OutputTokenEstimate(self_window_size)>>
    /\ nEncodes = encodesBefore
    /\ nEncodes = 2
    /\ ret.value = 2 * self_window_size - 1

(***************************************************************************)
(* C17.  The scan gives one length per generated sequence, in batch        *)
(* order: the 0-based position of the first end-of-answer marker when the  *)
(* sequence has one, the full output width when it has none.               *)
(***************************************************************************)
C17_MarkerFallback ==
    op = "output_sequence_lengths" =>
        /\ Len(ret) = Len(arg)
        /\ \A m \in 1..Len(arg) :
              LET output == arg[m]
                  marked == {j \in 1..Len(output) :
                                output[j] = ANSWER_EOS_TOKEN}
              IN  IF marked = {}
                  THEN ret[m] = Len(output)
                  ELSE /\ ret[m] + 1 \in marked
                       /\ \A j \in marked : ret[m] + 1 <= j

\* A batch of two: the first sequence has its first marker at position 1,
\* the second has none.
C17_Witness ==
    /\ op = "output_sequence_lengths"
    /\ Len(arg) = 2
    /\ arg[1] = <<2, ANSWER_EOS_TOKEN>>
    /\ arg[2] = <<2, 0>>
    /\ ret = <<1, 2>>

====
